---- MODULE Spec2Model ----
(***************************************************************************)
(* Arabic-GEC: a FastAPI application that corrects Arabic text with a      *)
(* pretrained generation pipeline and stores every correction in a hosted  *)
(* table.  The model covers the layered application under src/app: the     *)
(* CorrectionService (model lifecycle, response extraction, generation     *)
(* with CPU fallback), the DatabaseService (insert / list / delete) and    *)
(* the JSON and HTML route handlers.                                       *)
(*                                                                         *)
(* Text is a sequence of one-character strings, so that str.find,          *)
(* str.replace and str.strip are computed character by character.          *)
(***************************************************************************)
EXTENDS Integers, Sequences, FiniteSets, TLC

\* ------------------------------------------------------------------ bounds
\* number of pieces concatenated into one generated text (SpecExtract)
MaxPieces == 4
\* number of rows the store's id sequence hands out in one behaviour
MaxId == 2
\* largest value of the wall clock read by datetime.now()
MaxClock == 1

\* --------------------------------------------------------- program constants
MinTextLength == 1
MaxTextLength == 5000

\* ------------------------------------------------------------- python values
None == "None"
True == "True"
False == "False"

\* truth value of a Python object in `if x` / `not x`
Truthy(v) == v \notin {None, False}

\* --------------------------------------------------------------- characters
NL == "\n"
SP == " "
\* the characters str.strip() removes (those that occur in the model's texts)
Whitespace == {SP, NL}

model_marker == <<NL, "m", "o", "d", "e", "l", NL>>
alt_marker == <<"m", "o", "d", "e", "l", NL>>
end_of_turn == <<"<", "e", "n", "d", "_", "o", "f", "_", "t", "u", "r", "n", ">">>
start_of_turn == <<"<", "s", "t", "a", "r", "t", "_", "o", "f", "_", "t", "u", "r", "n", ">">>

\* ------------------------------------------------------------ str operations
\* s[start:] with a 0-based start
SliceFrom(s, start) == SubSeq(s, start + 1, Len(s))

\* the 0-based positions at which sub occurs in s
Occurrences(s, sub) ==
    {i \in 0..(Len(s) - Len(sub)) : SubSeq(s, i + 1, i + Len(sub)) = sub}

\* sub in s
Contains(s, sub) == Occurrences(s, sub) # {}

SetMin(S) == CHOOSE x \in S : \A y \in S : x <= y
SetMax(S) == CHOOSE x \in S : \A y \in S : x >= y

\* s.find(sub): lowest index of sub in s, -1 when absent
Find(s, sub) == IF Contains(s, sub) THEN SetMin(Occurrences(s, sub)) ELSE -1

\* s.strip(): leading and trailing whitespace removed
Strip(s) ==
    LET keep == {i \in 1..Len(s) : s[i] \notin Whitespace}
    IN  IF keep = {} THEN <<>> ELSE SubSeq(s, SetMin(keep), SetMax(keep))

\* s.replace(old, ""): one left-to-right pass over non-overlapping occurrences
RECURSIVE Remove(_, _)
Remove(s, old) ==
    IF Len(s) < Len(old) THEN s
    ELSE IF SubSeq(s, 1, Len(old)) = old
         THEN Remove(SliceFrom(s, Len(old)), old)
         ELSE <<s[1]>> \o Remove(SliceFrom(s, 1), old)

\* --------------------------------------------------- CorrectionService (pure)
\* (variant: the tail after the last occurrence of marker)
AfterMarker_Last(generated_text, marker) ==
    LET response_start == SetMax(Occurrences(generated_text, marker)) + Len(marker)
        response == Strip(SliceFrom(generated_text, response_start))
    IN  Strip(Remove(response, end_of_turn))

\* the tail of generated_text after the first occurrence of marker, cleaned
AfterMarker(generated_text, marker) ==
    LET response_start == Find(generated_text, marker) + Len(marker)
        response == Strip(SliceFrom(generated_text, response_start))
    IN  Strip(Remove(response, end_of_turn))

extract_model_response(generated_text) ==
    IF Contains(generated_text, model_marker)
    THEN AfterMarker(generated_text, model_marker)
    ELSE IF Contains(generated_text, alt_marker)
         THEN AfterMarker(generated_text, alt_marker)
         ELSE Strip(generated_text)

\* ------------------------------------------------------------------- state
VARIABLES
    phase,          \* "constructed" (before lifespan startup) or "serving"
    tokenizer,      \* CorrectionService.tokenizer: None or the tokenizer
    pipe,           \* CorrectionService.pipe: None or the primary pipeline
    model_loaded,   \* CorrectionService.model_loaded: True or False
    store,          \* rows of the corrections table
    next_id,        \* next value of the table's id sequence
    clock,          \* last value read from datetime.now()
    deleted,        \* history: ids whose delete removed a row
    req,            \* the request handled last
    resp,           \* the response sent for it
    env,            \* what the pipelines and the store did during it
    inf,            \* outcome of correct_arabic_text during it
    called,         \* calls the handler made, in order
    logged,         \* str(e) of the exception the route logged, <<>> if none
    extract_input,  \* SpecExtract: input of extract_model_response
    extract_output, \* SpecExtract: its result
    xpc             \* SpecExtract: "input" or "done"

svc_vars == <<tokenizer, pipe, model_loaded>>
db_vars == <<store, next_id, clock, deleted>>
io_vars == <<req, resp, env, inf, called, logged>>
x_vars == <<extract_input, extract_output, xpc>>
vars == <<phase, tokenizer, pipe, model_loaded, store, next_id, clock, deleted,
          req, resp, env, inf, called, logged, extract_input, extract_output, xpc>>

\* ------------------------------------------------------------- exceptions
\* str(e): starlette's HTTPException prints "<status>: <detail>"
Str(e) == IF e.type = "HTTPException"
          THEN <<ToString(e.status)>> \o e.detail
          ELSE e.msg

HTTPException(status_code, error, message) ==
    [type |-> "HTTPException", status |-> status_code,
     detail |-> <<error>> \o message, msg |-> <<>>]

Error(type, message) ==
    [type |-> type, status |-> 0, detail |-> <<>>, msg |-> <<message>>]

\* outcome of a function body: a returned value or a raised exception
Return(v) == [kind |-> "return", value |-> v, exc |-> Error("", "")]
Raise(e) == [kind |-> "raise", value |-> <<>>, exc |-> e]

\* ------------------------------------------------------- request / response
NoReq == [op |-> "none", text |-> <<>>, id |-> 0]
Req(op, text, id) == [op |-> op, text |-> text, id |-> id]

NoResp == [status |-> 0, error |-> "", message |-> <<>>, id |-> 0,
           original_text |-> <<>>, corrected_text |-> <<>>, timestamp |-> -1,
           model_loaded |-> None, items |-> <<>>, page |-> ""]

NoEnv == [primary |-> "unreached", primary_result |-> <<>>,
          cpu_build |-> "unreached", cpu_gen |-> "unreached",
          fallback_result |-> <<>>, store |-> "unreached"]
NoInf == [kind |-> "none", value |-> <<>>, exc |-> ""]

\* the framework's answer to a request that fails validation
ValidationError == [NoResp EXCEPT !.status = 422, !.error = "validation"]

\* the framework's answer to an HTTPException raised by a route
HttpErrorResponse(e) ==
    [NoResp EXCEPT !.status = e.status, !.error = e.detail[1],
                   !.message = SubSeq(e.detail, 2, Len(e.detail))]

\* the framework's answer to any other exception leaving a route
UnhandledResponse == [NoResp EXCEPT !.status = 500, !.error = "Internal Server Error"]

\* ------------------------------------------- CorrectionService.initialize_model
StartupOutcomes == {"tokenizer_fails", "pipeline_fails", "ok"}

\* (variant: model_loaded is set as soon as the tokenizer is loaded)
initialize_model_flag_first(outcome) ==
    [tokenizer |-> IF outcome = "tokenizer_fails" THEN None ELSE "tokenizer",
     pipe |-> IF outcome = "ok" THEN "pipeline" ELSE None,
     model_loaded |-> IF outcome = "tokenizer_fails" THEN False ELSE True,
     raised |-> outcome # "ok"]

\* the service fields after initialize_model, by the step that raised
initialize_model(outcome) ==
    [tokenizer |-> IF outcome = "tokenizer_fails" THEN None ELSE "tokenizer",
     pipe |-> IF outcome = "ok" THEN "pipeline" ELSE None,
     model_loaded |-> IF outcome = "ok" THEN True ELSE False,
     raised |-> outcome # "ok"]

\* ----------------------------------------------------------------- schema
\* TextCorrectionRequest: Field(min_length, max_length), then validate_text
TextCorrectionRequest(v) ==
    IF Len(v) < MinTextLength \/ Len(v) > MaxTextLength THEN [ok |-> FALSE, text |-> <<>>]
    ELSE IF Strip(v) = <<>> THEN [ok |-> FALSE, text |-> <<>>]
    ELSE [ok |-> TRUE, text |-> Strip(v)]

\* ------------------------------------------------------------------ inputs
\* texts a client posts to the form endpoint
FormTexts == {<<>>, <<SP>>}
LongText == [i \in 1..(MaxTextLength + 1) |-> "a"]
\* texts a client posts to the JSON endpoint
RawTexts == FormTexts \cup {<<"a", SP>>, LongText}
\* the texts the routes pass to correct_arabic_text
InferenceTexts == FormTexts \cup {TextCorrectionRequest(t).text : t \in RawTexts}
\* what a pipeline generates after the prompt
Completions == {<<>>, <<"a">>, <<"b">> \o end_of_turn}

\* ---------------------------------------- CorrectionService.correct_arabic_text
\* tokenizer.apply_chat_template(messages, add_generation_prompt=True)
apply_chat_template(text) ==
    start_of_turn \o <<"u", "s", "e", "r", NL>> \o text \o end_of_turn \o <<NL>>
    \o start_of_turn \o <<"m", "o", "d", "e", "l", NL>>

\* outputs[0]["generated_text"] with return_full_text=True
full_text(prompt, completion) == prompt \o completion

Has(calls, name) == \E i \in 1..Len(calls) : calls[i] = name

\* outcome of correct_arabic_text, with the calls it made
Returned(v, calls) == [kind |-> "returned", value |-> v, exc |-> "", calls |-> calls]
Raised(type, calls) == [kind |-> "raised", value |-> <<>>, exc |-> type, calls |-> calls]

\* result = extract_model_response(outputs[0]["generated_text"]) for the prompt
\* built from text, by text and by what the pipeline generated
pipeline_results ==
    {[text |-> text, completion |-> completion,
      result |-> extract_model_response(
                     full_text(apply_chat_template(text), completion))] :
        text \in InferenceTexts,
        completion \in Completions}

pipeline_result(text, completion) ==
    (CHOOSE p \in pipeline_results :
        p.text = text /\ p.completion = completion).result

\* (variant: the final handler lets the failure through)
outer_except_reraise(failure, text, calls) == Raised(failure, calls)

\* (variant: the final handler returns an empty string)
outer_except_empty(failure, text, calls) ==
    IF failure = "RuntimeError" THEN Returned(<<>>, calls) ELSE Raised(failure, calls)

\* `except RuntimeError as e: return text` around the whole body
outer_except(failure, text, calls) ==
    IF failure = "RuntimeError" THEN Returned(text, calls) ELSE Raised(failure, calls)

\* (variant: the fallback returns its result even when it is empty)
cpu_fallback_raw(text, e, calls) ==
    LET c1 == Append(calls, "pipeline")
        c2 == Append(c1, "cpu_pipe")
        result == pipeline_result(text, e.cpu_gen.completion)
    IN  IF e.cpu_build # "ok" THEN outer_except(e.cpu_build, text, c1)
        ELSE IF e.cpu_gen.out # "ok" THEN outer_except(e.cpu_gen.out, text, c2)
        ELSE Returned(Strip(result), c2)

\* the CPU fallback: build a second pipeline, generate, extract
cpu_fallback(text, e, calls) ==
    LET c1 == Append(calls, "pipeline")
        c2 == Append(c1, "cpu_pipe")
        result == pipeline_result(text, e.cpu_gen.completion)
    IN  IF e.cpu_build # "ok" THEN outer_except(e.cpu_build, text, c1)
        ELSE IF e.cpu_gen.out # "ok" THEN outer_except(e.cpu_gen.out, text, c2)
        ELSE Returned(IF Strip(result) # <<>> THEN Strip(result) ELSE text, c2)

\* (variant: any non-empty primary result is accepted)
generate_accept_nonempty(text, e) ==
    LET c1 == <<"pipe">>
        result == pipeline_result(text, e.primary.completion)
    IN  IF e.primary.out = "ok"
        THEN IF Strip(result) # <<>>
             THEN Returned(Strip(result), c1)
             ELSE cpu_fallback(text, e, c1)
        ELSE IF e.primary.out = "RuntimeError"
             THEN cpu_fallback(text, e, c1)
             ELSE outer_except(e.primary.out, text, c1)

\* the try block: primary generation, then the fallback
generate_with_fallback(text, e) ==
    LET c1 == <<"pipe">>
        result == pipeline_result(text, e.primary.completion)
    IN  IF e.primary.out = "ok"
        THEN IF Strip(result) # <<>> /\ Strip(result) # Strip(text)
             THEN Returned(Strip(result), c1)
             ELSE cpu_fallback(text, e, c1)
        ELSE IF e.primary.out = "RuntimeError"
             THEN cpu_fallback(text, e, c1)
             ELSE outer_except(e.primary.out, text, c1)

correct_arabic_text(text, e) ==
    IF ~Truthy(model_loaded) \/ ~Truthy(pipe) \/ ~Truthy(tokenizer)
    THEN Raised("ValueError", <<>>)
    ELSE generate_with_fallback(text, e)

\* (variant: the fallback stores its pipeline in self.pipe)
self_after_rebound(calls) ==
    [tokenizer |-> tokenizer,
     pipe |-> IF Has(calls, "cpu_pipe") THEN "cpu_pipeline" ELSE pipe,
     model_loaded |-> model_loaded]

\* the fields of the service after a call of correct_arabic_text that made
\* these calls: the body assigns to locals only (cpu_pipe is one of them)
self_after_correct(calls) ==
    [tokenizer |-> tokenizer, pipe |-> pipe, model_loaded |-> model_loaded]

\* message of the exception correct_arabic_text raised
InferenceError(type) ==
    IF type = "ValueError" THEN Error(type, "Model not loaded")
    ELSE Error(type, "generation failed")

\* ------------------------------------------------------------ DatabaseService
StoreOutcomes == {"ok", "error"}

Ids(rows) == {r.id : r \in rows}

\* (variant: the row keeps the original text in both columns)
new_row_same(original_text, corrected_text, id, created_at) ==
    [id |-> id, original_text |-> original_text,
     corrected_text |-> original_text, created_at |-> created_at]

\* the row the table returns for an insert
new_row(original_text, corrected_text, id, created_at) ==
    [id |-> id, original_text |-> original_text,
     corrected_text |-> corrected_text, created_at |-> created_at]

\* create_correction: the inserted row, or the store's failure re-raised
create_correction(original_text, corrected_text, created_at, outcome) ==
    IF outcome = "ok"
    THEN Return(new_row(original_text, corrected_text, next_id, created_at))
    ELSE Raise(Error("Exception", "Error creating correction"))

\* (variant: the filter matches every id up to the given one)
db_delete_upto(id, outcome) ==
    LET data == IF outcome = "ok" THEN {r \in store : r.id <= id} ELSE {}
    IN  [removed |-> data, success |-> data # {}]

\* delete_correction: the rows removed, and len(result.data) > 0; a failure
\* of the store call is swallowed and reported as False
db_delete_correction(id, outcome) ==
    LET data == IF outcome = "ok" THEN {r \in store : r.id = id} ELSE {}
    IN  [removed |-> data, success |-> data # {}]

\* (variant: the rows come back oldest first)
SortedAsc(rows) ==
    {f \in [1..Cardinality(rows) -> rows] :
        \A i, j \in 1..Cardinality(rows) :
            i < j => f[i] # f[j] /\ f[i].created_at <= f[j].created_at}

\* the orders .order("created_at", desc=True) may return the rows in
SortedDesc(rows) ==
    {f \in [1..Cardinality(rows) -> rows] :
        \A i, j \in 1..Cardinality(rows) :
            i < j => f[i] # f[j] /\ f[i].created_at >= f[j].created_at}

Generations ==
    {[out |-> "ok", completion |-> c] : c \in Completions}
    \cup {[out |-> f, completion |-> <<>>] : f \in {"RuntimeError", "OtherError"}}
BuildOutcomes == {"ok", "RuntimeError", "OtherError"}
Envs == [primary : Generations, cpu_build : BuildOutcomes,
         cpu_gen : Generations, store : StoreOutcomes]
\* values datetime.now() may return next
Nows == {t \in {clock, clock + 1} : t <= MaxClock}
RequestIds == 0..MaxId

\* what happened, as far as the handler got; primary_result and
\* fallback_result are the `result` extracted from the primary and from the
\* CPU generation when it did not raise
Happened(text, e, calls) ==
    [primary |-> IF Has(calls, "pipe") THEN e.primary.out ELSE "unreached",
     primary_result |-> IF Has(calls, "pipe") /\ e.primary.out = "ok"
                        THEN pipeline_result(text, e.primary.completion)
                        ELSE <<>>,
     cpu_build |-> IF Has(calls, "pipeline") THEN e.cpu_build ELSE "unreached",
     cpu_gen |-> IF Has(calls, "cpu_pipe") THEN e.cpu_gen.out ELSE "unreached",
     fallback_result |-> IF Has(calls, "cpu_pipe") /\ e.cpu_gen.out = "ok"
                         THEN pipeline_result(text, e.cpu_gen.completion)
                         ELSE <<>>,
     store |-> IF Has(calls, "create_correction") THEN e.store ELSE "unreached"]

\* e fixes only what a call with this text gets to: the rest is left at "ok"
OnlyReached(text, e) ==
    LET r == generate_with_fallback(text, e)
    IN  /\ Has(r.calls, "pipeline") \/ e.cpu_build = "ok"
        /\ Has(r.calls, "cpu_pipe") \/ e.cpu_gen = [out |-> "ok", completion |-> <<>>]
        /\ r.kind = "returned" \/ e.store = "ok"

\* the texts that reach inference, each with the behaviours of its environment
InferenceInputs ==
    {p \in InferenceTexts \X Envs :
        OnlyReached(p[1], p[2])}

EnvsFor(text) == {p[2] : p \in {q \in InferenceInputs : q[1] = text}}

InfOf(r) == [kind |-> r.kind, value |-> r.value, exc |-> r.exc]

\* ------------------------------------------------------------- api routes
\* `except Exception as e` of a route: every exception, HTTPException included
RouteCatches(e) == TRUE

\* the HTTPException a route raises from its except clause
internal_error(e) == HTTPException(500, "Internal server error", Str(e))

\* the response to a route body that raised
route_error(e) ==
    IF RouteCatches(e) THEN HttpErrorResponse(internal_error(e))
    ELSE IF e.type = "HTTPException" THEN HttpErrorResponse(e)
    ELSE UnhandledResponse

\* GET /gec/health
health_check ==
    /\ phase = "serving"
    /\ req' = Req("health", <<>>, 0)
    /\ resp' = [NoResp EXCEPT !.status = 200,
                              !.model_loaded = IF model_loaded # None THEN True ELSE False]
    /\ env' = NoEnv /\ inf' = NoInf /\ called' = <<>> /\ logged' = <<>>
    /\ UNCHANGED <<phase, svc_vars, db_vars, x_vars>>

\* GET /gec/all
get_all_text ==
    /\ phase = "serving"
    /\ \E outcome \in StoreOutcomes, rows \in SortedDesc(store) :
          /\ req' = Req("api_list", <<>>, 0)
          /\ resp' = IF outcome = "ok"
                     THEN [NoResp EXCEPT !.status = 200, !.items = rows]
                     ELSE UnhandledResponse
          /\ env' = [NoEnv EXCEPT !.store = outcome]
          /\ called' = <<"get_all_corrections">>
    /\ inf' = NoInf /\ logged' = <<>>
    /\ UNCHANGED <<phase, svc_vars, db_vars, x_vars>>

\* POST /gec/correct
correct_text ==
    /\ phase = "serving"
    /\ next_id <= MaxId
    /\ \E raw \in RawTexts :
          LET request == TextCorrectionRequest(raw)
              input_text == request.text
              not_ready == ~Truthy(pipe) \/ ~Truthy(tokenizer)
              unavailable == HTTPException(503, "Model not loaded",
                                           <<"Server is still initializing">>)
          IN  /\ req' = Req("api_correct", raw, 0)
              /\ IF ~request.ok
                 THEN /\ resp' = ValidationError
                      /\ env' = NoEnv /\ inf' = NoInf /\ called' = <<>>
                      /\ logged' = <<>>
                      /\ UNCHANGED db_vars
                 ELSE IF not_ready
                 THEN /\ resp' = route_error(unavailable)
                      /\ logged' = IF RouteCatches(unavailable)
                                   THEN Str(unavailable) ELSE <<>>
                      /\ env' = NoEnv /\ inf' = NoInf /\ called' = <<>>
                      /\ UNCHANGED db_vars
                 ELSE \E e \in EnvsFor(input_text) :
                        LET r == correct_arabic_text(input_text, e)
                            calls == <<"correct_arabic_text">> \o r.calls
                                     \o (IF r.kind = "returned"
                                         THEN <<"create_correction">> ELSE <<>>)
                        IN  /\ called' = calls
                            /\ env' = Happened(input_text, e, calls)
                            /\ inf' = InfOf(r)
                            /\ IF r.kind = "raised"
                               THEN /\ resp' = route_error(InferenceError(r.exc))
                                    /\ logged' = IF RouteCatches(InferenceError(r.exc))
                                                 THEN Str(InferenceError(r.exc)) ELSE <<>>
                                    /\ UNCHANGED db_vars
                               ELSE \E now \in Nows :
                                      LET created == create_correction(
                                                        input_text, r.value, now, e.store)
                                          row == created.value
                                      IN  IF created.kind = "raise"
                                          THEN /\ now = clock
                                               /\ resp' = route_error(created.exc)
                                               /\ logged' = IF RouteCatches(created.exc)
                                                            THEN Str(created.exc) ELSE <<>>
                                               /\ UNCHANGED db_vars
                                          ELSE /\ resp' = [NoResp EXCEPT
                                                             !.status = 200,
                                                             !.id = row.id,
                                                             !.original_text = input_text,
                                                             !.corrected_text = r.value,
                                                             !.timestamp = row.created_at]
                                               /\ logged' = <<>>
                                               /\ store' = store \cup {row}
                                               /\ next_id' = next_id + 1
                                               /\ clock' = now
                                               /\ UNCHANGED deleted
    /\ LET after == self_after_correct(called')
       IN  /\ tokenizer' = after.tokenizer
           /\ pipe' = after.pipe
           /\ model_loaded' = after.model_loaded
    /\ UNCHANGED <<phase, x_vars>>

\* DELETE /gec/delete/{text_id}
delete_correction ==
    /\ phase = "serving"
    /\ \E text_id \in RequestIds, outcome \in StoreOutcomes :
          LET d == db_delete_correction(text_id, outcome)
              not_found == HTTPException(404, "Correction not found",
                              <<"Correction with id ", ToString(text_id), " not found">>)
          IN  /\ req' = Req("api_delete", <<>>, text_id)
              /\ inf' = NoInf
              /\ IF ~(text_id > 0)
                 THEN /\ resp' = ValidationError
                      /\ env' = NoEnv /\ called' = <<>> /\ logged' = <<>>
                      /\ UNCHANGED db_vars
                 ELSE /\ called' = <<"delete_correction">>
                      /\ env' = [NoEnv EXCEPT !.store = outcome]
                      /\ store' = store \ d.removed
                      /\ deleted' = deleted \cup Ids(d.removed)
                      /\ UNCHANGED <<next_id, clock>>
                      /\ IF ~d.success
                         THEN /\ resp' = route_error(not_found)
                              /\ logged' = IF RouteCatches(not_found)
                                           THEN Str(not_found) ELSE <<>>
                         ELSE /\ resp' = [NoResp EXCEPT !.status = 204]
                              /\ logged' = <<>>
    /\ UNCHANGED <<phase, svc_vars, x_vars>>

\* ------------------------------------------------------------- web routes
\* (variant: the handler answers a failure as the JSON route does)
error_page_500(exc) == HttpErrorResponse(internal_error(exc))

\* the page the `except Exception` of the form handler renders
error_page(exc) ==
    [NoResp EXCEPT !.status = 200, !.page = "index.html",
                   !.error = "An error occurred while correcting text",
                   !.message = Str(exc)]

\* POST /correct (HTML form; the framework treats an empty field as missing)
correct_text_web ==
    /\ phase = "serving"
    /\ next_id <= MaxId
    /\ \E text \in FormTexts :
          /\ req' = Req("web_correct", text, 0)
          /\ logged' = <<>>
          /\ IF text = <<>>
             THEN /\ resp' = ValidationError
                  /\ env' = NoEnv /\ inf' = NoInf /\ called' = <<>>
                  /\ UNCHANGED db_vars
             ELSE IF ~Truthy(model_loaded)
             THEN /\ resp' = [NoResp EXCEPT !.status = 200, !.page = "index.html",
                                            !.error = "Model not loaded"]
                  /\ env' = NoEnv /\ inf' = NoInf /\ called' = <<>>
                  /\ UNCHANGED db_vars
             ELSE \E e \in EnvsFor(text) :
                    LET r == correct_arabic_text(text, e)
                        calls == <<"correct_arabic_text">> \o r.calls
                                 \o (IF r.kind = "returned"
                                     THEN <<"create_correction">> ELSE <<>>)
                    IN  /\ called' = calls
                        /\ env' = Happened(text, e, calls)
                        /\ inf' = InfOf(r)
                        /\ IF r.kind = "raised"
                           THEN /\ resp' = error_page(InferenceError(r.exc))
                                /\ UNCHANGED db_vars
                           ELSE \E now \in Nows :
                                  LET created == create_correction(
                                                    text, r.value, now, e.store)
                                      row == created.value
                                  IN  IF created.kind = "raise"
                                      THEN /\ now = clock
                                           /\ resp' = error_page(created.exc)
                                           /\ UNCHANGED db_vars
                                      ELSE /\ resp' = [NoResp EXCEPT
                                                         !.status = 200,
                                                         !.page = "correction.html",
                                                         !.id = row.id,
                                                         !.original_text = text,
                                                         !.corrected_text = r.value]
                                           /\ store' = store \cup {row}
                                           /\ next_id' = next_id + 1
                                           /\ clock' = now
                                           /\ UNCHANGED deleted
    /\ LET after == self_after_correct(called')
       IN  /\ tokenizer' = after.tokenizer
           /\ pipe' = after.pipe
           /\ model_loaded' = after.model_loaded
    /\ UNCHANGED <<phase, x_vars>>

\* GET /
home ==
    /\ phase = "serving"
    /\ req' = Req("web_home", <<>>, 0)
    /\ resp' = [NoResp EXCEPT !.status = 200, !.page = "index.html"]
    /\ env' = NoEnv /\ inf' = NoInf /\ called' = <<>> /\ logged' = <<>>
    /\ UNCHANGED <<phase, svc_vars, db_vars, x_vars>>

\* GET /history
correction_history ==
    /\ phase = "serving"
    /\ \E outcome \in StoreOutcomes, rows \in SortedDesc(store) :
          /\ req' = Req("web_history", <<>>, 0)
          /\ resp' = IF outcome = "ok"
                     THEN [NoResp EXCEPT !.status = 200, !.page = "history.html",
                                         !.items = rows]
                     ELSE UnhandledResponse
          /\ env' = [NoEnv EXCEPT !.store = outcome]
          /\ called' = <<"get_all_corrections">>
    /\ inf' = NoInf /\ logged' = <<>>
    /\ UNCHANGED <<phase, svc_vars, db_vars, x_vars>>

\* POST /delete/{correction_id}: any integer id, the outcome of the delete
\* ignored, then a redirect to the history page
delete_correction_web ==
    /\ phase = "serving"
    /\ \E correction_id \in RequestIds, outcome \in StoreOutcomes :
          LET d == db_delete_correction(correction_id, outcome)
          IN  /\ req' = Req("web_delete", <<>>, correction_id)
              /\ called' = <<"delete_correction">>
              /\ env' = [NoEnv EXCEPT !.store = outcome]
              /\ store' = store \ d.removed
              /\ deleted' = deleted \cup Ids(d.removed)
              /\ resp' = [NoResp EXCEPT !.status = 303, !.page = "/history"]
    /\ inf' = NoInf /\ logged' = <<>>
    /\ UNCHANGED <<phase, svc_vars, next_id, clock, x_vars>>

\* ---------------------------------------------------------------- lifespan
\* startup: initialize_model, its failure logged and swallowed
lifespan ==
    /\ phase = "constructed"
    /\ \E outcome \in StartupOutcomes :
          LET m == initialize_model(outcome)
          IN  /\ tokenizer' = m.tokenizer
              /\ pipe' = m.pipe
              /\ model_loaded' = m.model_loaded
    /\ phase' = "serving"
    /\ UNCHANGED <<db_vars, io_vars, x_vars>>

\* ----------------------------------------------------------- specification
\* CorrectionService.__init__, an empty table, no request handled yet
Init ==
    /\ phase = "constructed"
    /\ tokenizer = None /\ pipe = None /\ model_loaded = False
    /\ store = {} /\ next_id = 1 /\ clock = 0 /\ deleted = {}
    /\ req = NoReq /\ resp = NoResp /\ env = NoEnv /\ inf = NoInf
    /\ called = <<>> /\ logged = <<>>
    /\ extract_input = <<>> /\ extract_output = <<>> /\ xpc = "off"

Next ==
    \/ lifespan
    \/ health_check
    \/ get_all_text
    \/ correct_text
    \/ delete_correction
    \/ correct_text_web
    \/ home
    \/ correction_history
    \/ delete_correction_web

Spec == Init /\ [][Next]_vars

\* ----------------------------------------- extract_model_response on its own
Pieces == {<<NL>>, <<SP>>, <<"a">>, alt_marker, end_of_turn,
           <<"<", "e", "n", "d", "_">>, <<"o", "f", "_", "t", "u", "r", "n", ">">>}

RECURSIVE Concats(_)
Concats(n) ==
    IF n = 0 THEN {<<>>}
    ELSE LET shorter == Concats(n - 1)
         IN  shorter \cup {p \o x : p \in Pieces, x \in shorter}

GeneratedTexts == Concats(MaxPieces)

InitExtract ==
    /\ phase = "constructed"
    /\ tokenizer = None /\ pipe = None /\ model_loaded = False
    /\ store = {} /\ next_id = 1 /\ clock = 0 /\ deleted = {}
    /\ req = NoReq /\ resp = NoResp /\ env = NoEnv /\ inf = NoInf
    /\ called = <<>> /\ logged = <<>>
    /\ extract_input \in GeneratedTexts /\ extract_output = <<>> /\ xpc = "input"

Extract ==
    /\ xpc = "input"
    /\ extract_output' = extract_model_response(extract_input)
    /\ xpc' = "done"
    /\ UNCHANGED <<phase, svc_vars, db_vars, io_vars, extract_input>>

NextExtract == Extract

SpecExtract == InitExtract /\ [][NextExtract]_vars

\* ------------------------------------------------------------------ claims
\* the text a request hands to correct_arabic_text
InferenceText ==
    IF req.op = "api_correct" THEN TextCorrectionRequest(req.text).text ELSE req.text

ItemIds(items) == {items[i].id : i \in 1..Len(items)}

\* C1: POST /gec/correct with a valid text while the pipeline or the tokenizer
\* is unset is answered 503, and neither inference nor persistence is invoked.
C1_Unavailable503 ==
    (/\ req.op = "api_correct"
     /\ TextCorrectionRequest(req.text).ok
     /\ (~Truthy(pipe) \/ ~Truthy(tokenizer)))
    => /\ resp.status = 503
       /\ ~Has(called, "correct_arabic_text")
       /\ ~Has(called, "create_correction")

\* C2: GET /gec/health reports model_loaded = true exactly when the model is
\* loaded, so false before and after a failed initialize_model.
C2_HealthReflectsModel ==
    req.op = "health" => (resp.model_loaded = True <=> model_loaded = True)

C4_DeleteStatus ==
    [][(req'.op = "api_delete" /\ req'.id > 0)
       => resp'.status = IF env'.store = "error" THEN 500
                         ELSE IF req'.id \in Ids(store) THEN 204 ELSE 404]_vars

\* C5: a request whose text is empty or whitespace only, on POST /gec/correct
\* or on POST /correct, neither reaches correct_arabic_text nor creates a row.
C5_BlankRejected ==
    (req.op \in {"api_correct", "web_correct"} /\ Strip(req.text) = <<>>)
    => /\ ~Has(called, "correct_arabic_text")
       /\ ~Has(called, "create_correction")

\* the substring after the leftmost occurrence of either role marker, with
\* end-of-turn markers removed and trimmed; the trimmed text without a marker
LeftmostMarkerReference(g) ==
    LET ends == {i + Len(model_marker) : i \in Occurrences(g, model_marker)}
                \cup {i + Len(alt_marker) : i \in Occurrences(g, alt_marker)}
        start(m) == Find(g, m)
        first == IF ~Contains(g, model_marker) THEN alt_marker
                 ELSE IF start(model_marker) < start(alt_marker)
                      THEN model_marker ELSE alt_marker
    IN  IF ends = {} THEN Strip(g)
        ELSE Strip(Remove(SliceFrom(g, start(first) + Len(first)), end_of_turn))

\* the substring after the first "\nmodel\n" when there is one, else after the
\* first "model\n", cleaned the same way; the trimmed text without a marker
PreferredMarkerReference(g) ==
    LET marker == IF Contains(g, model_marker) THEN model_marker ELSE alt_marker
        first == CHOOSE i \in Occurrences(g, marker) :
                     \A j \in Occurrences(g, marker) : i <= j
    IN  IF ~Contains(g, alt_marker) THEN Strip(g)
        ELSE Strip(Remove(SliceFrom(g, first + Len(marker)), end_of_turn))

\* C6 as stated: extract_model_response returns the text after the leftmost
\* occurrence of a role marker ("\nmodel\n" or "model\n"), cleaned.
C6_LeftmostMarker ==
    xpc = "done" => extract_output = LeftmostMarkerReference(extract_input)

\* C6 amended: extract_model_response returns the text after the first
\* "\nmodel\n" if the text contains one, otherwise after the first "model\n",
\* end-of-turn markers removed and trimmed; without a marker the trimmed text.
C6_PreferredMarker ==
    xpc = "done" => extract_output = PreferredMarkerReference(extract_input)

\* a text in which "model\n" occurs before the first "\nmodel\n"
C6_Witness ==
    /\ xpc = "done"
    /\ Contains(extract_input, model_marker)
    /\ Find(extract_input, alt_marker) < Find(extract_input, model_marker)
    /\ extract_output # LeftmostMarkerReference(extract_input)

\* C7: when the primary generation raises a RuntimeError and the fallback
\* (building the CPU pipeline, or generating with it) raises one too,
\* correct_arabic_text returns the input text unchanged and POST /gec/correct
\* answers 200 with it unless the store fails.
C7_TotalFailureEchoesInput ==
    (/\ Has(called, "correct_arabic_text")
     /\ env.primary = "RuntimeError"
     /\ (env.cpu_build = "RuntimeError" \/ env.cpu_gen = "RuntimeError"))
    => /\ inf.kind = "returned"
       /\ inf.value = InferenceText
       /\ (req.op = "api_correct" /\ env.store = "ok")
          => /\ resp.status = 200
             /\ resp.corrected_text = InferenceText

\* both generations failed and POST /gec/correct answered with the input
C7_Witness ==
    /\ req.op = "api_correct"
    /\ env.primary = "RuntimeError"
    /\ env.cpu_gen = "RuntimeError"
    /\ resp.status = 200
    /\ resp.corrected_text = resp.original_text

\* C8: a POST /gec/correct answering 200 has added exactly one row, holding
\* the validated text and the value inference returned, and the response
\* carries that row's id and texts; one not answering 200 has added none.
C8_OneRowPer200 ==
    [][req'.op = "api_correct"
       => IF resp'.status = 200
          THEN \E row \in store' :
                  /\ row \notin store
                  /\ row.id \notin Ids(store)
                  /\ store' = store \cup {row}
                  /\ row.original_text = TextCorrectionRequest(req'.text).text
                  /\ row.corrected_text = inf'.value
                  /\ resp'.id = row.id
                  /\ resp'.original_text = row.original_text
                  /\ resp'.corrected_text = row.corrected_text
          ELSE store' = store]_vars

\* a 200 whose row holds a correction that differs from the original
C8_Witness ==
    /\ req.op = "api_correct"
    /\ resp.status = 200
    /\ \E row \in store :
          /\ row.id = resp.id
          /\ row.corrected_text = resp.corrected_text
          /\ row.corrected_text # row.original_text

\* C9: no list returns an id whose delete succeeded earlier; a delete of an
\* id that names no row leaves the rows unchanged and is answered not-found.
C9_DeleteThenList ==
    [][/\ (req'.op = "api_list" /\ resp'.status = 200)
          => ItemIds(resp'.items) \cap deleted = {}
       /\ (req'.op = "api_delete" /\ req'.id > 0 /\ req'.id \notin Ids(store))
          => (store' = store /\ resp'.status = 404)]_vars

\* C10: the detail of a 500 from POST /gec/correct or DELETE /gec/delete/{id}
\* does not contain the message of the exception that caused it.
C10_GenericDetail ==
    (req.op \in {"api_correct", "api_delete"} /\ resp.status = 500)
    => (logged # <<>> /\ ~Contains(resp.message, logged))

\* C11: a GET /gec/all answering 200 returns every stored row and no other,
\* each once, and of two adjacent rows of the list the first is not older
\* than the second, whatever creates and deletes came before.
C11_ListAllNewestFirst ==
    [][(req'.op = "api_list" /\ resp'.status = 200)
       => LET items == resp'.items
          IN  /\ {items[i] : i \in 1..Len(items)} = store'
              /\ Len(items) = Cardinality(store')
              /\ \A i \in 1..(Len(items) - 1) :
                     items[i].created_at >= items[i + 1].created_at]_vars

\* a list of two rows created at different times
C11_Witness ==
    /\ req.op = "api_list"
    /\ resp.status = 200
    /\ Len(resp.items) = 2
    /\ resp.items[1].created_at > resp.items[2].created_at

\* number of calls of one name a request made
Calls(name) == Cardinality({i \in 1..Len(called) : called[i] = name})

\* the primary generation raised a RuntimeError, or its result is empty or
\* equal to the trimmed input
PrimaryRejected ==
    \/ env.primary = "RuntimeError"
    \/ /\ env.primary = "ok"
       /\ (Strip(env.primary_result) = <<>>
           \/ Strip(env.primary_result) = Strip(InferenceText))

\* the call returned the primary result, without entering the fallback
PrimaryReturned ==
    /\ inf.kind = "returned"
    /\ env.primary = "ok"
    /\ env.cpu_build = "unreached"
    /\ inf.value = Strip(env.primary_result)

\* C12 as stated: in one call of correct_arabic_text the CPU generation runs
\* at most once, and it runs exactly when the primary generation raised a
\* RuntimeError or gave a result that is empty or equal to the trimmed input;
\* the primary result is returned exactly when it is non-empty and differs
\* from the trimmed input, and then no CPU pipeline is constructed.
C12_FallbackGenerationIffRejected ==
    Has(called, "pipe")
    => /\ Calls("cpu_pipe") <= 1
       /\ Has(called, "cpu_pipe") <=> PrimaryRejected
       /\ PrimaryReturned
          <=> (/\ env.primary = "ok"
               /\ Strip(env.primary_result) # <<>>
               /\ Strip(env.primary_result) # Strip(InferenceText))
       /\ PrimaryReturned => ~Has(called, "pipeline")

\* C12 amended: in one call of correct_arabic_text the fallback is entered,
\* that is the CPU pipeline is constructed, at most once and exactly when the
\* primary generation raised a RuntimeError or gave a result that is empty or
\* equal to the trimmed input; the CPU generation runs at most once, exactly
\* when that construction succeeded; the primary result is returned exactly
\* when it is non-empty and differs from the trimmed input, and then no CPU
\* pipeline is constructed.
C12_FallbackEnteredIffRejected ==
    Has(called, "pipe")
    => /\ Calls("pipeline") <= 1
       /\ Calls("cpu_pipe") <= 1
       /\ Has(called, "pipeline") <=> PrimaryRejected
       /\ Has(called, "cpu_pipe")
          <=> (Has(called, "pipeline") /\ env.cpu_build = "ok")
       /\ PrimaryReturned
          <=> (/\ env.primary = "ok"
               /\ Strip(env.primary_result) # <<>>
               /\ Strip(env.primary_result) # Strip(InferenceText))
       /\ PrimaryReturned => ~Has(called, "pipeline")

\* the primary result equalled the input, the construction of the CPU
\* pipeline failed, and no CPU generation ran
C12_Witness ==
    /\ Has(called, "pipe")
    /\ env.primary = "ok"
    /\ env.primary_result # <<>>
    /\ env.primary_result = Strip(InferenceText)
    /\ env.cpu_build = "RuntimeError"
    /\ ~Has(called, "cpu_pipe")

\* C13: whenever the generated text contains a role marker, the result of
\* extract_model_response contains no "<end_of_turn>" and neither starts nor
\* ends with whitespace, also when removing one marker joins the characters
\* around it.
C13_NoEndOfTurnLeft ==
    (xpc = "done" /\ Contains(extract_input, alt_marker))
    => /\ ~Contains(extract_output, end_of_turn)
       /\ extract_output = Strip(extract_output)

\* C14: a call of correct_arabic_text, whether it returns the primary result,
\* goes through the fallback or fails altogether, leaves the tokenizer, the
\* primary pipeline and model_loaded of the service as they were; the CPU
\* pipeline of the fallback is not stored in the service.
C14_ServiceStateUnchanged ==
    [][Has(called', "correct_arabic_text")
       => /\ tokenizer' = tokenizer
          /\ pipe' = pipe
          /\ model_loaded' = model_loaded
          /\ pipe' # "cpu_pipeline"]_vars

\* a call that built the CPU pipeline and generated with it, the service
\* still holding its primary pipeline
C14_Witness ==
    /\ Has(called, "correct_arabic_text")
    /\ Has(called, "cpu_pipe")
    /\ env.primary = "RuntimeError"
    /\ pipe = "pipeline"
    /\ tokenizer = "tokenizer"
    /\ model_loaded = True

\* C15: no create, list or delete, on the JSON or on the HTML endpoints,
\* changes a field of a row that stays in the table; ids stay unique; a
\* create adds one row and removes none; a delete adds none and removes only
\* the row with the id it was given; every other request leaves the table as
\* it was.
C15_RowsNeverMutated ==
    [][/\ \A r \in store : r.id \in Ids(store') => r \in store'
       /\ \A r1, r2 \in store' : r1.id = r2.id => r1 = r2
       /\ Cardinality(store' \ store) <= 1
       /\ store' \ store # {}
          => (req'.op \in {"api_correct", "web_correct"} /\ store \subseteq store')
       /\ store \ store' # {}
          => /\ req'.op \in {"api_delete", "web_delete"}
             /\ store' \subseteq store
             /\ \A r \in store \ store' : r.id = req'.id]_vars

\* the HTML delete removed one row and another row is still in the table
C15_Witness ==
    /\ req.op = "web_delete"
    /\ req.id \in deleted
    /\ req.id \notin Ids(store)
    /\ store # {}

\* C16: after construction and after initialize_model, whichever of its steps
\* failed, model_loaded is true exactly when the tokenizer and the primary
\* pipeline are both set; so a request let through by the guard of a route
\* is never refused by the guard of correct_arabic_text, and after a failed
\* startup the application serves with model_loaded false.
C16_LoadedIffBothSet ==
    /\ model_loaded \in {True, False}
    /\ model_loaded = True <=> (Truthy(tokenizer) /\ Truthy(pipe))
    /\ Has(called, "correct_arabic_text") => inf.exc # "ValueError"
    /\ (phase = "serving" /\ ~(Truthy(tokenizer) /\ Truthy(pipe)))
       => model_loaded = False

\* serving after a startup that loaded the tokenizer and failed to build the
\* pipeline
C16_Witness ==
    /\ phase = "serving"
    /\ Truthy(tokenizer)
    /\ ~Truthy(pipe)
    /\ model_loaded = False
    /\ req.op = "health"

\* C17: when correct_arabic_text returns for a text that is non-empty after
\* trimming, the string it returns is non-empty: an empty primary result
\* leads into the fallback, and an empty fallback result is replaced by the
\* text.
C17_ReturnsNonEmpty ==
    (/\ Has(called, "correct_arabic_text")
     /\ Strip(InferenceText) # <<>>
     /\ inf.kind = "returned")
    => /\ inf.value # <<>>
       /\ (env.primary = "ok" /\ Strip(env.primary_result) = <<>>)
          => Has(called, "pipeline")
       /\ (env.cpu_gen = "ok" /\ Strip(env.fallback_result) = <<>>)
          => inf.value = InferenceText

\* both generations gave an empty result and the text came back
C17_Witness ==
    /\ Has(called, "correct_arabic_text")
    /\ Strip(InferenceText) # <<>>
    /\ env.primary = "ok" /\ env.primary_result = <<>>
    /\ env.cpu_gen = "ok" /\ env.fallback_result = <<>>
    /\ inf.kind = "returned"
    /\ inf.value = InferenceText

\* C18 as stated: POST /correct never answers with an error status; with
\* model_loaded false it renders the error page and calls neither inference
\* nor the store; when inference or the store raises it renders the error
\* page; a row is created only after inference returned. POST /delete/{id}
\* always answers 303 to /history, a row deleted or not.
C18_FormNeverErrors ==
    [][/\ req'.op = "web_correct"
          => /\ resp'.status = 200
             /\ ~Truthy(model_loaded)
                => /\ resp'.page = "index.html" /\ resp'.error # ""
                   /\ called' = <<>> /\ store' = store
             /\ (inf'.kind = "raised" \/ env'.store = "error")
                => /\ resp'.page = "index.html" /\ resp'.error # ""
                   /\ store' = store
             /\ store' # store
                => /\ inf'.kind = "returned"
                   /\ called'[1] = "correct_arabic_text"
                   /\ called'[Len(called')] = "create_correction"
       /\ req'.op = "web_delete"
          => (resp'.status = 303 /\ resp'.page = "/history")]_vars

\* C18 amended: POST /correct with a non-empty text field never answers with
\* an error status; with model_loaded false it renders the error page and
\* calls neither inference nor the store; when inference or the store raises
\* it renders the error page; a row is created only after inference returned.
\* POST /delete/{id} always answers 303 to /history, a row deleted or not.
C18_FilledFormNeverErrors ==
    [][/\ (req'.op = "web_correct" /\ req'.text # <<>>)
          => /\ resp'.status = 200
             /\ ~Truthy(model_loaded)
                => /\ resp'.page = "index.html" /\ resp'.error # ""
                   /\ called' = <<>> /\ store' = store
             /\ (inf'.kind = "raised" \/ env'.store = "error")
                => /\ resp'.page = "index.html" /\ resp'.error # ""
                   /\ store' = store
             /\ store' # store
                => /\ inf'.kind = "returned"
                   /\ called'[1] = "correct_arabic_text"
                   /\ called'[Len(called')] = "create_correction"
       /\ (req'.op = "web_correct" /\ req'.text = <<>>)
          => (resp'.status = 422 /\ called' = <<>> /\ store' = store)
       /\ req'.op = "web_delete"
          => (resp'.status = 303 /\ resp'.page = "/history")]_vars

\* the form handler rendered the error page after the store refused the row
C18_Witness ==
    /\ req.op = "web_correct"
    /\ req.text # <<>>
    /\ inf.kind = "returned"
    /\ env.store = "error"
    /\ resp.status = 200
    /\ resp.page = "index.html"
    /\ resp.error # ""

====
